---------------------------- MODULE Spec2Model ----------------------------
(***************************************************************************)
(* Model of Actions/update_torn_wars.py (TornWarsUpdater): one invocation  *)
(* of main() runs authenticate -> fetch -> resolve the weekly worksheet -> *)
(* write the rows -> notify -> retention cleanup against a spreadsheet     *)
(* that persists between invocations.  Parts of it (retention, row         *)
(* synthesis, row order, status and duration, win/loss statistics) are     *)
(* also run on their own, over wider inputs.  The last section models      *)
(* run_export of Actions/export_random_wars_sample.py.                     *)
(*                                                                         *)
(* Strings that the program compares or sorts (worksheet titles, ISO       *)
(* dates) are sequences of character codes, so that Python's string order  *)
(* is the lexicographic order computed here.  Dates are day numbers since  *)
(* 1970-01-01 (UTC), formatted by strftime as the program formats them.    *)
(***************************************************************************)
EXTENDS Integers, Sequences, FiniteSets, TLC

\* ------------------------------------------------------------------ bounds
\* First UTC day an invocation may happen on: 20083 = Thu 2024-12-26, so the
\* seven start days cross a year boundary (Tue 2024-12-31, Wed 2025-01-01).
FirstDay == 20083
\* Number of main() invocations in one behaviour.
MaxRuns == 2
\* Largest keep_weeks tried by the stand-alone retention specification.
MaxKeep == 3

\* ------------------------------------------------------- program constants
SHEET_NAME_PREFIX == <<84,111,114,110,32,87,97,114,115,32,68,97,116,97>>
SheetRows == 1000
SheetCols == 22
HeaderRow == 4
data_start_row == 5
KeepWeeksDefault == 8
TuesdayIndex == 1

expected_headers ==
  << "War ID", "Status", "Start Date", "End Date", "Duration",
     "Target Score", "Faction 1 ID", "Faction 1 Name", "Faction 1 Score",
     "Faction 1 Chain", "Faction 1 Wars Won", "Faction 1 Wars Lost", "Faction 1 Win Rate",
     "Faction 2 ID", "Faction 2 Name", "Faction 2 Score", "Faction 2 Chain",
     "Faction 2 Wars Won", "Faction 2 Wars Lost", "Faction 2 Win Rate",
     "Total Score", "Winner Faction ID" >>

\* ------------------------------------------------------------ small helpers
Min(S) == CHOOSE x \in S : \A y \in S : x <= y
Max(S) == CHOOSE x \in S : \A y \in S : y <= x

\* Python's str order: code point by code point, a proper prefix is smaller.
StrLess(a, b) ==
  LET n == IF Len(a) < Len(b) THEN Len(a) ELSE Len(b)
      diff == {i \in 1..n : a[i] # b[i]}
  IN  IF diff = {} THEN Len(a) < Len(b) ELSE a[Min(diff)] < b[Min(diff)]

\* str.startswith
startswith(s, p) == Len(s) >= Len(p) /\ SubSeq(s, 1, Len(p)) = p

\* Zero-padded decimal digits, as character codes ('0' = 48).
Digits2(n) == << 48 + ((n \div 10) % 10), 48 + (n % 10) >>
Digits4(n) == << 48 + ((n \div 1000) % 10), 48 + ((n \div 100) % 10),
                 48 + ((n \div 10) % 10), 48 + (n % 10) >>

\* Proleptic Gregorian date of a day number (days since 1970-01-01).
civil_from_days(z0) ==
  LET z   == z0 + 719468
      era == z \div 146097
      doe == z - era * 146097
      yoe == (doe - doe \div 1460 + doe \div 36524 - doe \div 146096) \div 365
      doy == doe - (365 * yoe + yoe \div 4 - yoe \div 100)
      mp  == (5 * doy + 2) \div 153
      d   == doy - (153 * mp + 2) \div 5 + 1
      m   == IF mp < 10 THEN mp + 3 ELSE mp - 9
      y   == yoe + era * 400 + (IF m <= 2 THEN 1 ELSE 0)
  IN  [y |-> y, m |-> m, d |-> d]

\* datetime.strftime("%Y-%m-%d"): "YYYY-MM-DD" ('-' = 45).
strftime_ymd(day) ==
  LET c == civil_from_days(day)
  IN  Digits4(c.y) \o <<45>> \o Digits2(c.m) \o <<45>> \o Digits2(c.d)

\* datetime.weekday(): Monday = 0 ... Sunday = 6 (1970-01-01 was a Thursday).
weekday(day) == (day + 3) % 7

\* ------------------------------------------------- get_weekly_sheet_name
\* The date the program puts in the name, as the code computes it.
tuesday_date(now) ==
  LET current_weekday == weekday(now)
  IN  IF current_weekday = TuesdayIndex THEN now
      ELSE IF current_weekday > 1
           THEN now + ((8 - current_weekday) % 7)
           ELSE now - 1

\* f"{SHEET_NAME_PREFIX} - {date_str}" (' ' = 32, '-' = 45).
SheetTitle(day) == SHEET_NAME_PREFIX \o <<32, 45, 32>> \o strftime_ymd(day)

get_weekly_sheet_name(now) == SheetTitle(tuesday_date(now))


\* datetime.isoformat() of a UTC datetime: "YYYY-MM-DDTHH:MM:SS+00:00".
isoformat(ts) ==
  LET sec == ts % 86400
  IN  strftime_ymd(ts \div 86400) \o <<84>> \o Digits2(sec \div 3600) \o <<58>>
        \o Digits2((sec \div 60) % 60) \o <<58>> \o Digits2(sec % 60)
        \o <<43>> \o Digits2(0) \o <<58>> \o Digits2(0)

\* ------------------------------------------------------------ sheet rows
\* One row of a worksheet.  kind: "created_on" / "as_of" (the two notes),
\* "header", "data".  gen is the invocation that synthesized a data row.
EmptyRow ==
  [kind |-> "blank", hdr |-> <<>>, day |-> 0, war_id |-> 0, start |-> <<>>,
   f1 |-> 0, f1_won |-> 0, f1_lost |-> 0, f1_rate |-> 0,
   f2 |-> 0, f2_won |-> 0, f2_lost |-> 0, f2_rate |-> 0,
   winner |-> 0, gen |-> 0]

\* 'Sheet created on <timestamp> UTC' written to A1.
CreatedNote(now) == [EmptyRow EXCEPT !.kind = "created_on", !.day = now]
\* 'Data represents wars as of <date>' written to A2.
AsOfNote(day) == [EmptyRow EXCEPT !.kind = "as_of", !.day = day]
HeaderRowOf(h) == [EmptyRow EXCEPT !.kind = "header", !.hdr = h]

\* ------------------------------------------------- worksheet operations
\* A worksheet: its grid size and its non-blank rows (row index -> row).
NoCells == [r \in {} |-> EmptyRow]

\* Worksheet.row_values(r): the row's cell texts, [] for a blank row.
row_values(ws, r) ==
  IF r \in DOMAIN ws.cells
  THEN IF ws.cells[r].kind = "header" THEN ws.cells[r].hdr
       ELSE << ws.cells[r].kind >>
  ELSE <<>>

\* Worksheet.clear(): every value gone, the grid size kept.
clear(ws) == [ws EXCEPT !.cells = NoCells]

\* Worksheet.update(values, range A<r0>:V<r0+len-1>): the rows are written;
\* a range that runs past the last grid row makes the grid grow to hold it.
update(ws, r0, values) ==
  LET last == r0 + Len(values) - 1
      dom  == DOMAIN ws.cells \cup (r0..last)
  IN  [ws EXCEPT
         !.cells = [r \in dom |-> IF r \in r0..last THEN values[r - r0 + 1]
                                  ELSE ws.cells[r]],
         !.rows  = IF last > ws.rows THEN last ELSE ws.rows]

\* Worksheet.resize(rows, cols): rows beyond the new size are dropped.
resize(ws, rows, cols) ==
  [rows |-> rows, cols |-> cols,
   cells |-> [r \in {x \in DOMAIN ws.cells : x <= rows} |-> ws.cells[r]]]

\* Worksheet.delete_rows(a, b): rows a..b removed, later rows move up.
delete_rows(ws, a, b) ==
  LET n    == b - a + 1
      keep == {r \in DOMAIN ws.cells : r < a \/ r > b}
      dom  == {IF r > b THEN r - n ELSE r : r \in keep}
  IN  [ws EXCEPT
         !.rows  = ws.rows - n,
         !.cells = [r \in dom |-> IF r >= a THEN ws.cells[r + n] ELSE ws.cells[r]]]

\* Spreadsheet.add_worksheet(title, rows=1000, cols=22): an empty grid.
add_worksheet == [rows |-> SheetRows, cols |-> SheetCols, cells |-> NoCells]

\* The legacy placement of setup_headers: the header always in row 1.
setup_headers_at_first_row(ws, row_number) ==
  update(ws, 1, << [EmptyRow EXCEPT !.kind = "header", !.hdr = expected_headers] >>)

\* setup_headers_at_row(sheet, row_number)
setup_headers_at_row(ws, row_number) ==
  update(ws, row_number, << HeaderRowOf(expected_headers) >>)

\* The worksheet after each call reset_sheet_structure makes, in order.
reset_sheet_structure_calls(ws, now) ==
  LET s1 == clear(ws)
      s2 == update(s1, 1, << CreatedNote(now) >>)
      s3 == update(s2, 2, << AsOfNote(now) >>)
      s4 == setup_headers_at_row(s3, HeaderRow)
      s5 == resize(s4, SheetRows, SheetCols)
  IN  << s1, s2, s3, s4, s5 >>

\* The worksheet after each call of the creation branch of
\* get_or_create_weekly_sheet, in order; the A2 note carries the date taken
\* from the sheet name.
create_weekly_sheet_calls(now) ==
  LET s1 == add_worksheet
      s2 == update(s1, 1, << CreatedNote(now) >>)
      s3 == update(s2, 2, << AsOfNote(tuesday_date(now)) >>)
      s4 == setup_headers_at_row(s3, HeaderRow)
  IN  << s1, s2, s3, s4 >>

\* The header test with the element-wise comparison left out.
headers_changed_length_only(current_headers) ==
  Len(current_headers) # Len(expected_headers)

\* The header test of get_or_create_weekly_sheet: TRUE when a reset is needed.
headers_changed(current_headers) ==
  Len(current_headers) # Len(expected_headers) \/ current_headers # expected_headers


\* ------------------------------------------------ per-faction statistics
\* What the history request of one faction meets:
\*   kind "exception": network error, HTTP error status, unparsable body;
\*   kind "error":     the provider's {"error": {"code": ...}} (5 = rate limit);
\*   kind "data":      a payload, with or without a "rankedwars" mapping, whose
\*                     wars are given by their recorded winners (0 = none).
Response(kind, code, has_rankedwars, winners) ==
  [kind |-> kind, code |-> code, has_rankedwars |-> has_rankedwars, winners |-> winners]

\* fetch_faction_history: the payload, or None on any failure.
fetch_faction_history(resp) ==
  IF resp.kind = "data"
  THEN [none |-> FALSE, has_rankedwars |-> resp.has_rankedwars, winners |-> resp.winners]
  ELSE [none |-> TRUE, has_rankedwars |-> FALSE, winners |-> <<>>]

ZeroStats == [wars_won |-> 0, wars_lost |-> 0, total_wars |-> 0, win_rate |-> 0]

\* int(num / den * 100): the percentage cut off instead of rounded.
PercentTruncated(num, den) == (num * 100) \div den

\* Python's round(num / den * 100): half to even (exact for den < 40).
PyRoundPercent(num, den) ==
  LET q == (num * 100) \div den
      r == (num * 100) % den
  IN  IF 2 * r < den THEN q
      ELSE IF 2 * r > den THEN q + 1
      ELSE IF q % 2 = 0 THEN q ELSE q + 1

\* calculate_faction_stats; win_rate n stands for the text "n%".
calculate_faction_stats(faction_id, resp) ==
  LET faction_data == fetch_faction_history(resp)
      rankedwars   == IF faction_data.has_rankedwars THEN faction_data.winners ELSE <<>>
      total_wars   == Len(rankedwars)
      wars_won     == Cardinality({i \in 1..total_wars :
                          rankedwars[i] # 0 /\ rankedwars[i] = faction_id})
  IN  IF faction_data.none THEN ZeroStats
      ELSE IF rankedwars = <<>> THEN ZeroStats
      ELSE [wars_won |-> wars_won, wars_lost |-> total_wars - wars_won,
            total_wars |-> total_wars,
            win_rate |-> IF total_wars > 0 THEN PyRoundPercent(wars_won, total_wars) ELSE 0]

\* ------------------------------------------------ status and duration
\* str(n) of a natural number, as character codes.
RECURSIVE Decimal(_)
Decimal(n) == IF n < 10 THEN << 48 + n >> ELSE Decimal(n \div 10) \o << 48 + (n % 10) >>

\* The three f-strings of format_duration ('d' = 100, 'h' = 104, 'm' = 109).
DurationText(days, hours, minutes) ==
  IF days > 0
  THEN Decimal(days) \o <<100, 32>> \o Decimal(hours) \o <<104, 32>> \o Decimal(minutes) \o <<109>>
  ELSE IF hours > 0
       THEN Decimal(hours) \o <<104, 32>> \o Decimal(minutes) \o <<109>>
       ELSE Decimal(minutes) \o <<109>>

\* format_duration(start_timestamp, end_timestamp): start and end are the
\* provider's timestamps (seconds; end 0 stands for a missing, None or zero
\* end, which the test `if end_timestamp` treats alike), now_ms is
\* datetime.now().timestamp() * 1000.  // and % round toward minus infinity.
format_duration(start_timestamp, end_timestamp, now_ms) ==
  LET start_time == start_timestamp * 1000
      end_time   == IF end_timestamp # 0 THEN end_timestamp ELSE now_ms
      duration   == end_time - start_time
      days       == duration \div (1000 * 60 * 60 * 24)
      hours      == (duration % (1000 * 60 * 60 * 24)) \div (1000 * 60 * 60)
      minutes    == (duration % (1000 * 60 * 60)) \div (1000 * 60)
  IN  DurationText(days, hours, minutes)

\* A status that takes every ended war for finished.
war_status_ended_is_finished(end_timestamp, now_ms) ==
  IF end_timestamp = 0 THEN "Active" ELSE "Finished"

\* The status of lines 362-367: end < datetime.now().timestamp(), both sides
\* taken in milliseconds here.
war_status(end_timestamp, now_ms) ==
  IF end_timestamp = 0 THEN "Active"
  ELSE IF end_timestamp * 1000 < now_ms THEN "Finished"
  ELSE "Preparing"

\* ---------------------------------------------------------- row synthesis
\* A war record of the provider: id, start timestamp, the ids of its
\* factions in payload order, recorded winner (0 = none).
War(id, start, factions, winner) ==
  [id |-> id, start |-> start, factions |-> factions, winner |-> winner]

\* A history request whose exception is not caught: the variant of
\* prepare_raises in which fetch_faction_history lets it through.
prepare_raises_uncaught(wars, resp) ==
  \/ \E i \in 1..Len(wars) : Len(wars[i].factions) < 2
  \/ \E i \in 1..(2 * Len(wars)) : resp[i].kind = "exception"

\* Whether prepare_wars_data raises: faction_ids[1] is an IndexError for a
\* record with fewer than two factions; no outcome of a history request
\* raises (fetch_faction_history and calculate_faction_stats catch them all).
prepare_raises(wars, resp) == \E i \in 1..Len(wars) : Len(wars[i].factions) < 2

\* The row of the i-th war; its two history requests are calls 2i-1 and 2i.
war_row(war, resp1, resp2, gen) ==
  LET faction1_stats == calculate_faction_stats(war.factions[1], resp1)
      faction2_stats == calculate_faction_stats(war.factions[2], resp2)
  IN  [EmptyRow EXCEPT
         !.kind = "data", !.war_id = war.id, !.start = isoformat(war.start),
         !.f1 = war.factions[1], !.f1_won = faction1_stats.wars_won,
         !.f1_lost = faction1_stats.wars_lost, !.f1_rate = faction1_stats.win_rate,
         !.f2 = war.factions[2], !.f2_won = faction2_stats.wars_won,
         !.f2_lost = faction2_stats.wars_lost, !.f2_rate = faction2_stats.win_rate,
         !.winner = war.winner, !.gen = gen]

\* An ascending sort read backwards: newest first, but rows with equal keys
\* come out in the reverse of their input order.
RECURSIVE sort_ties_reversed(_)
sort_ties_reversed(rows) ==
  IF rows = <<>> THEN <<>>
  ELSE LET rest == sort_ties_reversed(SubSeq(rows, 1, Len(rows) - 1))
           x    == rows[Len(rows)]
           k    == Cardinality({j \in 1..Len(rest) : StrLess(x.start, rest[j].start)})
       IN  SubSeq(rest, 1, k) \o << x >> \o SubSeq(rest, k + 1, Len(rest))

\* list.sort(key=lambda x: x[2], reverse=True): by the ISO start text,
\* descending, rows with equal keys keeping their order.
RECURSIVE sort_newest_first(_)
sort_newest_first(rows) ==
  IF rows = <<>> THEN <<>>
  ELSE LET rest == sort_newest_first(SubSeq(rows, 1, Len(rows) - 1))
           x    == rows[Len(rows)]
           k    == Cardinality({j \in 1..Len(rest) : ~StrLess(rest[j].start, x.start)})
       IN  SubSeq(rest, 1, k) \o << x >> \o SubSeq(rest, k + 1, Len(rest))

\* prepare_wars_data for well-formed records: one row per war, then the sort.
prepare_wars_data(wars, resp, gen) ==
  sort_newest_first([i \in 1..Len(wars) |->
                        war_row(wars[i], resp[2 * i - 1], resp[2 * i], gen)])

\* -------------------------------------------------------------- update_sheet
\* The worksheet after each store call update_sheet makes, in order, for the
\* prepared rows `wars` (no call at all when there are none).
update_sheet_calls(ws, wars) ==
  LET total_rows_needed == 4 + Len(wars)
      current_rows == ws.rows
      current_cols == ws.cols
      a  == IF current_rows < total_rows_needed
            THEN << resize(ws, total_rows_needed, SheetCols) >> ELSE <<>>
      wa == IF a = <<>> THEN ws ELSE a[1]
      b  == IF current_cols < SheetCols
            THEN << resize(wa, total_rows_needed, SheetCols) >> ELSE <<>>
      wb == IF b = <<>> THEN wa ELSE b[1]
      last_row == wb.rows
      c  == IF last_row > data_start_row
            THEN LET d == delete_rows(wb, data_start_row + 1, last_row)
                 IN  << d, resize(d, total_rows_needed, SheetCols) >>
            ELSE <<>>
      wc == IF c = <<>> THEN wb ELSE c[2]
  IN  IF wars = <<>> THEN <<>>
      ELSE a \o b \o c \o << update(wc, data_start_row + 1, wars) >>

\* ------------------------------------------------------ cleanup_old_sheets
\* weekly_sheets.sort(key=title, reverse=True) over distinct titles.
RECURSIVE sort_titles_desc(_)
sort_titles_desc(S) ==
  IF S = {} THEN <<>>
  ELSE LET top == CHOOSE t \in S : \A u \in S : u = t \/ StrLess(u, t)
       IN  << top >> \o sort_titles_desc(S \ {top})

\* cleanup with the sort direction reversed: the newest sheets go.
sheets_to_delete_newest(titles, keep) ==
  LET weekly_sheets == {t \in titles : startswith(t, SHEET_NAME_PREFIX)}
      sorted == sort_titles_desc(weekly_sheets)
  IN  IF Cardinality(weekly_sheets) <= keep THEN <<>>
      ELSE SubSeq(sorted, 1, Len(sorted) - keep)

\* The titles cleanup_old_sheets deletes, in deletion order.
sheets_to_delete(titles, keep) ==
  LET weekly_sheets == {t \in titles : startswith(t, SHEET_NAME_PREFIX)}
      sorted == sort_titles_desc(weekly_sheets)
  IN  IF Cardinality(weekly_sheets) <= keep THEN <<>>
      ELSE SubSeq(sorted, keep + 1, Len(sorted))


\* ================================================================ state
VARIABLES
  store,       \* the spreadsheet: worksheet title -> worksheet
  today,       \* current UTC day of this invocation
  webhook,     \* whether --discord-webhook is given
  keep_weeks,  \* keep_weeks argument of cleanup_old_sheets
  run,         \* number of this invocation of main()
  pc,          \* the step run_update is about to take
  gc,          \* self.gc is set (authenticated)
  torn_data,   \* the war records fetched in this invocation
  hist,        \* what each history request of this invocation meets
  sheet,       \* title of the worksheet resolved in this invocation
  result,      \* what run_update returned: "none", "True", "False"
  path,        \* how the worksheet was resolved: "none", "created", "valid", "reset"
  header_read, \* outcome of the row_values(4) read of this invocation
  prepared,    \* the rows prepare_wars_data returned in this invocation
  log,         \* the steps and store effects of this invocation, in order
  failed_at,   \* the step whose exception ended run_update
  deleted,     \* titles deleted by this invocation's cleanup
  store0,      \* the spreadsheet when this invocation started
  store_w,     \* the spreadsheet when update_sheet was called
  probe,       \* a war record's timestamps and the clock, for one synthesis
  columns,     \* the status and duration columns synthesized from probe
  export       \* the RandomWarsExporter process of export_random_wars_sample.py

vars == << store, today, webhook, keep_weeks, run, pc, gc, torn_data, hist, sheet,
           result, path, header_read, prepared, log, failed_at, deleted,
           store0, store_w, probe, columns, export >>

NoSheet == <<>>
NotRead == [status |-> "none", values |-> <<>>]

\* ------------------------------------------------------------ the inputs
W1 == War(101, 1735000000, <<11, 12>>, 0)
W2 == War(102, 1735600000, <<12, 13>>, 12)
W3 == War(103, 1735600000, <<13, 11>>, 11)
WBad == War(104, 1735000000, <<11>>, 0)

\* Payloads of the main fetch ("rankedwars" in payload order).
FetchChoices == { <<>>, <<W1>>, <<W1, W2, W3>>, <<WBad>> }

RespException == Response("exception", 0, FALSE, <<>>)
RespRateLimit == Response("error", 5, FALSE, <<>>)
RespOtherError == Response("error", 7, FALSE, <<>>)
RespNoHistory == Response("data", 0, FALSE, <<>>)
RespEmpty == Response("data", 0, TRUE, <<>>)
RespHistory == Response("data", 0, TRUE, <<11, 12, 0, 11>>)

RespPool == {RespException, RespRateLimit, RespOtherError, RespNoHistory,
             RespEmpty, RespHistory}

\* Header rows left by other revisions of the script: two columns swapped,
\* one renamed, the last dropped, a 23rd added.
HeaderVariants ==
  { [i \in 1..22 |-> IF i = 1 THEN expected_headers[2]
                     ELSE IF i = 2 THEN expected_headers[1] ELSE expected_headers[i]],
    [i \in 1..22 |-> IF i = 10 THEN "Faction 1 Streak" ELSE expected_headers[i]],
    SubSeq(expected_headers, 1, 21),
    expected_headers \o << "Last Updated" >> }

OldDataRow == [EmptyRow EXCEPT !.kind = "data", !.war_id = 99]

\* A weekly sheet as an invocation on `day` creates it.
FreshSheet(day) == create_weekly_sheet_calls(day)[4]

\* A weekly sheet of another revision: its header, and rows of data under it.
DriftSheet(day, h) ==
  update(update(FreshSheet(day), HeaderRow, << HeaderRowOf(h) >>),
         data_start_row, << OldDataRow, OldDataRow >>)

\* The spreadsheet's default first tab, "Sheet1".
Sheet1Title == <<83, 104, 101, 101, 116, 49>>
Sheet1 == [rows |-> SheetRows, cols |-> 26, cells |-> NoCells]

\* The spreadsheets an invocation on `day` may find: "Sheet1", the sheets of
\* the k previous weeks, and this week's sheet absent or drifted.
OlderTitles(day, k) == { get_weekly_sheet_name(day - 7 * j) : j \in 1..k }

BaseStore(day, k) ==
  [t \in {Sheet1Title} \cup OlderTitles(day, k) |->
     IF t = Sheet1Title THEN Sheet1
     ELSE FreshSheet(CHOOSE d \in {day - 7 * j : j \in 1..k} : get_weekly_sheet_name(d) = t)]

WithSheet(st, title, ws) ==
  [t \in DOMAIN st \cup {title} |-> IF t = title THEN ws ELSE st[t]]

InitStores(day) ==
  LET name == get_weekly_sheet_name(day)
  IN  { BaseStore(day, k) : k \in {0, 8, 9} }
      \cup { WithSheet(BaseStore(day, 0), name, DriftSheet(day, h)) : h \in HeaderVariants }

\* The values the three variables of the other checks keep during run_update.
NoProbe == [start |-> 0, end |-> 0, now |-> 0]
NoColumns == [status |-> "", duration |-> <<>>]
NoExport == [pc |-> "off"]
AuxIdle == probe = NoProbe /\ columns = NoColumns /\ export = NoExport

\* ----------------------------------------------------------------- Init
RunStart(st) ==
  /\ pc = "auth"
  /\ gc = FALSE
  /\ torn_data = <<>>
  /\ hist = <<>>
  /\ sheet = NoSheet
  /\ result = "none"
  /\ path = "none"
  /\ header_read = NotRead
  /\ prepared = <<>>
  /\ log = <<>>
  /\ failed_at = "none"
  /\ deleted = {}
  /\ store0 = st
  /\ store_w = st

Init ==
  /\ today \in FirstDay..(FirstDay + 6)
  /\ store \in InitStores(today)
  /\ webhook \in BOOLEAN
  /\ keep_weeks = KeepWeeksDefault
  /\ run = 1
  /\ RunStart(store)
  /\ AuxIdle


\* -------------------------------------------------------------- run_update
\* A run_update that logs a failed write and carries on.
on_exception_write_swallowed(step) ==
  IF step = "write" THEN [pc |-> "notify", result |-> "none"]
  ELSE [pc |-> "done", result |-> "False"]

\* run_update's except clause: any exception of a step ends the run, which
\* returns False.
on_exception(step) == [pc |-> "done", result |-> "False"]

\* A cleanup_old_sheets that re-raises: the run reports failure.
return_after_cleanup_raising(cleanup_error) ==
  IF cleanup_error THEN "False" ELSE "True"

\* What run_update returns once cleanup_old_sheets has come back, whether or
\* not cleanup met an error (cleanup logs it and does not raise).
return_after_cleanup(cleanup_error) == "True"

Raise(step) ==
  /\ pc' = on_exception(step).pc
  /\ result' = on_exception(step).result
  /\ failed_at' = step

\* History outcomes tried by a full run: the odd requests are answered, the
\* even ones fail.
HistoryChoices == { [i \in 1..6 |-> IF i % 2 = 1 THEN RespHistory ELSE RespException] }

authenticate_google ==
  /\ pc = "auth"
  /\ log' = Append(log, "auth")
  /\ \/ /\ gc' = TRUE
        /\ pc' = "fetch"
        /\ UNCHANGED << result, failed_at >>
     \/ /\ Raise("auth")
        /\ gc' = gc
  /\ UNCHANGED << store, today, webhook, keep_weeks, run, torn_data, hist, sheet,
                  path, header_read, prepared, deleted, store0, store_w >>
  /\ UNCHANGED << probe, columns, export >>

fetch_torn_wars ==
  /\ pc = "fetch"
  /\ log' = Append(log, "fetch")
  /\ \/ /\ torn_data' \in FetchChoices
        /\ hist' \in HistoryChoices
        /\ pc' = "resolve"
        /\ UNCHANGED << result, failed_at >>
     \/ /\ Raise("fetch")
        /\ UNCHANGED << torn_data, hist >>
  /\ UNCHANGED << store, today, webhook, keep_weeks, run, gc, sheet,
                  path, header_read, prepared, deleted, store0, store_w >>
  /\ UNCHANGED << probe, columns, export >>

\* The store after the first k of `calls` were made on worksheet `title`.
AfterCalls(st, title, calls, k) ==
  IF k = 0 THEN st ELSE WithSheet(st, title, calls[k])

get_or_create_weekly_sheet ==
  /\ pc = "resolve"
  /\ LET sheet_name == get_weekly_sheet_name(today) IN
     \/ \* open_by_key, or the lookup itself, fails
        /\ Raise("resolve")
        /\ log' = Append(log, "resolve")
        /\ UNCHANGED << store, sheet, path, header_read >>
     \/ \* the sheet exists: check the header row, reset on a mismatch or
        \* when the row cannot be read.  A reset that raises after a mismatch
        \* is caught by the same except clause and attempted once more; clear()
        \* makes the calls of the second attempt leave the worksheets the
        \* first one leaves, so k counts the calls of the last attempt made.
        /\ sheet_name \in DOMAIN store
        /\ \E read_ok \in BOOLEAN :
             LET current_headers == row_values(store[sheet_name], HeaderRow)
                 calls == reset_sheet_structure_calls(store[sheet_name], today)
             IN  /\ header_read' = IF read_ok
                                   THEN [status |-> "ok", values |-> current_headers]
                                   ELSE [status |-> "failed", values |-> <<>>]
                 /\ IF read_ok /\ ~headers_changed(current_headers)
                    THEN /\ path' = "valid"
                         /\ sheet' = sheet_name
                         /\ pc' = "write"
                         /\ log' = Append(log, "resolve")
                         /\ UNCHANGED << store, result, failed_at >>
                    ELSE \E k \in 0..Len(calls) :
                           /\ store' = AfterCalls(store, sheet_name, calls, k)
                           /\ IF k = Len(calls)
                              THEN /\ path' = "reset"
                                   /\ sheet' = sheet_name
                                   /\ pc' = "write"
                                   /\ log' = log \o << "resolve", "reset_begin", "reset" >>
                                   /\ UNCHANGED << result, failed_at >>
                              ELSE /\ Raise("resolve")
                                   /\ log' = log \o << "resolve", "reset_begin" >>
                                   /\ UNCHANGED << sheet, path >>
     \/ \* WorksheetNotFound: create the sheet, its notes and its header
        /\ sheet_name \notin DOMAIN store
        /\ LET calls == create_weekly_sheet_calls(today) IN
           \E k \in 0..Len(calls) :
             /\ store' = AfterCalls(store, sheet_name, calls, k)
             /\ header_read' = header_read
             /\ IF k = Len(calls)
                THEN /\ path' = "created"
                     /\ sheet' = sheet_name
                     /\ pc' = "write"
                     /\ log' = log \o << "resolve", "create" >>
                     /\ UNCHANGED << result, failed_at >>
                ELSE /\ Raise("resolve")
                     /\ log' = Append(log, "resolve")
                     /\ UNCHANGED << sheet, path >>
  /\ UNCHANGED << today, webhook, keep_weeks, run, gc, torn_data, hist,
                  prepared, deleted, store0, store_w >>
  /\ UNCHANGED << probe, columns, export >>

update_sheet ==
  /\ pc = "write"
  /\ store_w' = store
  /\ IF prepare_raises(torn_data, hist)
     THEN /\ Raise("write")
          /\ log' = Append(log, "write")
          /\ UNCHANGED << store, prepared >>
     ELSE LET wars  == prepare_wars_data(torn_data, hist, run)
              calls == update_sheet_calls(store[sheet], wars)
          IN  /\ prepared' = wars
              /\ \E k \in 0..Len(calls) :
                   /\ store' = AfterCalls(store, sheet, calls, k)
                   /\ IF k = Len(calls)
                      THEN /\ pc' = "notify"
                           /\ log' = IF wars = <<>> THEN Append(log, "write")
                                     ELSE log \o << "write", "data_write" >>
                           /\ UNCHANGED << result, failed_at >>
                      ELSE /\ Raise("write")
                           /\ log' = Append(log, "write")
  /\ UNCHANGED << today, webhook, keep_weeks, run, gc, torn_data, hist, sheet,
                  path, header_read, deleted, store0 >>
  /\ UNCHANGED << probe, columns, export >>

\* A notification sent on every day a webhook is given.
should_notify_any_day(discord_webhook_url, current_weekday) == discord_webhook_url

\* The test of line 558: a webhook is given and today (UTC) is Tuesday.
should_notify(discord_webhook_url, current_weekday) ==
  discord_webhook_url /\ current_weekday = TuesdayIndex

\* A send_discord_notification that lets a failed delivery through to
\* run_update's except clause.
after_notification_escalated(ok) == IF ok THEN "cleanup" ELSE "done"

\* Where run_update goes once send_weekly_update_notification has returned:
\* True (delivered) or False (delivery failed, logged), the value is ignored.
after_notification(ok) == "cleanup"

\* Lines 557-563 of run_update with send_weekly_update_notification and
\* send_discord_notification, which catch every exception of the delivery.
send_weekly_update_notification ==
  /\ pc = "notify"
  /\ \/ /\ should_notify(webhook, weekday(today))
        /\ \E ok \in BOOLEAN :
             /\ log' = log \o << "notify", IF ok THEN "delivered" ELSE "delivery_failed" >>
             /\ pc' = after_notification(ok)
     \/ /\ ~should_notify(webhook, weekday(today))
        /\ log' = log
        /\ pc' = "cleanup"
  /\ UNCHANGED << store, today, webhook, keep_weeks, run, gc, torn_data, hist, sheet,
                  result, path, header_read, prepared, failed_at, deleted,
                  store0, store_w >>
  /\ UNCHANGED << probe, columns, export >>

\* The store without the worksheets of T (a spreadsheet keeps at least one).
del_worksheets(st, T) == [t \in DOMAIN st \ T |-> st[t]]

cleanup_old_sheets ==
  /\ pc = "cleanup"
  /\ pc' = "done"
  /\ \/ \* open_by_key or worksheets() fails
        /\ log' = log \o << "cleanup", "cleanup_error" >>
        /\ result' = return_after_cleanup(TRUE)
        /\ UNCHANGED << store, deleted >>
     \/ LET to_delete == sheets_to_delete(DOMAIN store, keep_weeks) IN
        \E k \in 0..Len(to_delete) :
          /\ k < Cardinality(DOMAIN store)
          /\ deleted' = { to_delete[i] : i \in 1..k }
          /\ store' = del_worksheets(store, deleted')
          /\ log' = IF k = Len(to_delete) THEN Append(log, "cleanup")
                    ELSE log \o << "cleanup", "cleanup_error" >>
          /\ result' = return_after_cleanup(k < Len(to_delete))
  /\ UNCHANGED << today, webhook, keep_weeks, run, gc, torn_data, hist, sheet,
                  path, header_read, prepared, failed_at, store0, store_w >>
  /\ UNCHANGED << probe, columns, export >>

\* main(): exit(0) when run_update returned True, exit(1) otherwise.
exit_status(success) == IF success = "True" THEN 0 ELSE 1

\* The scheduler invokes main() again, the same day or the next.
main ==
  /\ pc = "done"
  /\ run < MaxRuns
  /\ run' = run + 1
  /\ today' \in {today, today + 1}
  /\ pc' = "auth"
  /\ gc' = FALSE
  /\ torn_data' = <<>>
  /\ hist' = <<>>
  /\ sheet' = NoSheet
  /\ result' = "none"
  /\ path' = "none"
  /\ header_read' = NotRead
  /\ prepared' = <<>>
  /\ log' = <<>>
  /\ failed_at' = "none"
  /\ deleted' = {}
  /\ store0' = store
  /\ store_w' = store
  /\ UNCHANGED << store, webhook, keep_weeks >>
  /\ UNCHANGED << probe, columns, export >>

Next ==
  \/ authenticate_google
  \/ fetch_torn_wars
  \/ get_or_create_weekly_sheet
  \/ update_sheet
  \/ send_weekly_update_notification
  \/ cleanup_old_sheets
  \/ main

Spec == Init /\ [][Next]_vars


\* ============================================== retention on its own
\* cleanup_old_sheets(spreadsheet_id, keep_weeks) called on spreadsheets made
\* of dated weekly sheets (across a year boundary), a sheet named by the bare
\* prefix, and "Sheet1".
TitlePool ==
  { SheetTitle(FirstDay + 7 * j) : j \in 0..3 } \cup { SHEET_NAME_PREFIX, Sheet1Title }

InitCleanup ==
  /\ today = FirstDay
  /\ \E T \in SUBSET TitlePool :
       /\ T # {}
       /\ store = [t \in T |-> Sheet1]
  /\ webhook = FALSE
  /\ keep_weeks \in 0..MaxKeep
  /\ run = 1
  /\ pc = "cleanup"
  /\ gc = TRUE
  /\ torn_data = <<>>
  /\ hist = <<>>
  /\ sheet = NoSheet
  /\ result = "none"
  /\ path = "none"
  /\ header_read = NotRead
  /\ prepared = <<>>
  /\ log = <<>>
  /\ failed_at = "none"
  /\ deleted = {}
  /\ store0 = store
  /\ store_w = store
  /\ AuxIdle

NextCleanup == cleanup_old_sheets

SpecCleanup == InitCleanup /\ [][NextCleanup]_vars

\* ========================================== row synthesis on its own
\* update_sheet called on a freshly created weekly sheet, for payloads of up
\* to two wars and every combination of history outcomes.
PrepareInputs == { <<>>, <<W1>>, <<W3>>, <<W1, W2>>, <<W2, W3>>, <<WBad>>, <<W1, WBad>> }

InitPrepare ==
  /\ today = FirstDay
  /\ sheet = get_weekly_sheet_name(today)
  /\ store = WithSheet(BaseStore(today, 0), sheet, FreshSheet(today))
  /\ webhook = FALSE
  /\ keep_weeks = KeepWeeksDefault
  /\ run = 1
  /\ pc = "write"
  /\ gc = TRUE
  /\ torn_data \in PrepareInputs
  /\ hist \in [1..(2 * Len(torn_data)) -> RespPool]
  /\ result = "none"
  /\ path = "valid"
  /\ header_read = [status |-> "ok", values |-> expected_headers]
  /\ prepared = <<>>
  /\ log = <<>>
  /\ failed_at = "none"
  /\ deleted = {}
  /\ store0 = store
  /\ store_w = store
  /\ AuxIdle

NextPrepare == update_sheet

SpecPrepare == InitPrepare /\ [][NextPrepare]_vars


\* ============================================== the row order on its own
\* update_sheet called on a freshly created weekly sheet with the war records
\* `wars` and the history outcomes `h`.
WriteCall(wars, h) ==
  /\ today = FirstDay
  /\ sheet = get_weekly_sheet_name(today)
  /\ store = WithSheet(BaseStore(today, 0), sheet, FreshSheet(today))
  /\ webhook = FALSE
  /\ keep_weeks = KeepWeeksDefault
  /\ run = 1
  /\ pc = "write"
  /\ gc = TRUE
  /\ torn_data = wars
  /\ hist = h
  /\ result = "none"
  /\ path = "valid"
  /\ header_read = [status |-> "ok", values |-> expected_headers]
  /\ prepared = <<>>
  /\ log = <<>>
  /\ failed_at = "none"
  /\ deleted = {}
  /\ store0 = store
  /\ store_w = store
  /\ AuxIdle

\* Wars that start in 2001, one second apart on both sides of the first
\* midnight of 2025 (two of them at that midnight), and a week earlier.
SortPool ==
  { War(201, 1735000000, <<11, 12>>, 0),
    War(202, 1735689599, <<12, 13>>, 12),
    War(203, 1735689600, <<13, 11>>, 0),
    War(204, 1735689600, <<11, 13>>, 13),
    War(205, 999999999, <<12, 11>>, 11) }

\* Longest payload of the row-order specification.
MaxSortLen == 3

\* The payloads: wars of the pool, each at most once (a payload is keyed by war id).
SortInputs ==
  UNION { { w \in [1..n -> SortPool] : \A i, j \in 1..n : i # j => w[i] # w[j] }
          : n \in 0..MaxSortLen }

InitSort ==
  \E wars \in SortInputs :
    WriteCall(wars, [i \in 1..(2 * Len(wars)) |-> RespEmpty])

NextSort == update_sheet

SpecSort == InitSort /\ [][NextSort]_vars


\* ================================== status and duration on their own
\* The part of prepare_wars_data's loop body that derives the Status and
\* Duration columns of one war record, applied to the record's timestamps.
prepare_war_columns ==
  /\ pc = "columns"
  /\ pc' = "done"
  /\ columns' = [status   |-> war_status(probe.end, probe.now),
                 duration |-> format_duration(probe.start, probe.end, probe.now)]
  /\ UNCHANGED << store, today, webhook, keep_weeks, run, gc, torn_data, hist, sheet,
                  result, path, header_read, prepared, log, failed_at, deleted,
                  store0, store_w, probe, export >>

\* Start timestamps (seconds) and elapsed times tried: 0, just under and at a
\* minute, just under an hour, 90 minutes, just under a day, 25 hours, more
\* than two days.
ProbeStarts == {0, 3600, 1000000}
ProbeElapsed == {0, 59, 60, 3599, 5400, 86399, 90000, 200000}

\* Wars that ended, seen one millisecond before, at, and one millisecond
\* after their end; wars without an end, seen at a whole second and 999 ms on.
ProbeInputs ==
  { [start |-> s, end |-> s + e, now |-> (s + e) * 1000 + d] :
      s \in ProbeStarts, e \in ProbeElapsed \ {0}, d \in {-1, 0, 1} }
  \cup { [start |-> s, end |-> s, now |-> s * 1000 + 1] : s \in ProbeStarts \ {0} }
  \cup { [start |-> s, end |-> 0, now |-> (s + e) * 1000 + d] :
           s \in ProbeStarts, e \in ProbeElapsed, d \in {0, 999} }

InitColumns ==
  /\ today = FirstDay
  /\ store = BaseStore(today, 0)
  /\ webhook = FALSE
  /\ keep_weeks = KeepWeeksDefault
  /\ run = 1
  /\ pc = "columns"
  /\ gc = TRUE
  /\ torn_data = <<>>
  /\ hist = <<>>
  /\ sheet = NoSheet
  /\ result = "none"
  /\ path = "none"
  /\ header_read = NotRead
  /\ prepared = <<>>
  /\ log = <<>>
  /\ failed_at = "none"
  /\ deleted = {}
  /\ store0 = store
  /\ store_w = store
  /\ probe \in ProbeInputs
  /\ columns = NoColumns
  /\ export = NoExport

NextColumns == prepare_war_columns

SpecColumns == InitColumns /\ [][NextColumns]_vars


\* ========================================== win/loss statistics on their own
\* Longest history of two-sided outcomes, and of outcomes that include wars
\* without a recorded winner.
MaxHistory == 8
MaxOpenHistory == 4

\* Histories of faction 11 or 12: the recorded winner of each war (0 = none).
HistoryLists ==
  UNION { [1..n -> {11, 12}] : n \in 0..MaxHistory }
  \cup UNION { [1..n -> {0, 11, 12}] : n \in 0..MaxOpenHistory }

\* update_sheet called with the one war W1 (factions 11 and 12); the history
\* request of one of its two factions is answered with a history of the pool.
InitStats ==
  \E w \in HistoryLists : \E p \in 1..2 :
    WriteCall(<< W1 >>, [i \in 1..2 |-> IF i = p THEN Response("data", 0, TRUE, w)
                                        ELSE RespEmpty])

NextStats == update_sheet

SpecStats == InitStats /\ [][NextStats]_vars


\* ===================================== runs on a spreadsheet with other tabs
\* Number of tabs somebody else added to the spreadsheet.
ArchiveTabs == 8

\* "Torn Wars Data Archive <n>": a tab whose title starts with the prefix and
\* was not made by this program.
ArchiveTitle(n) ==
  SHEET_NAME_PREFIX \o <<32, 65, 114, 99, 104, 105, 118, 101, 32>> \o Decimal(n)

\* "Sheet1" and the archive tabs.
ArchiveStore ==
  [t \in {Sheet1Title} \cup { ArchiveTitle(n) : n \in 1..ArchiveTabs } |-> Sheet1]

InitArchive ==
  /\ today \in FirstDay..(FirstDay + 6)
  /\ store = ArchiveStore
  /\ webhook \in BOOLEAN
  /\ keep_weeks = KeepWeeksDefault
  /\ run = 1
  /\ RunStart(store)
  /\ AuxIdle

SpecArchive == InitArchive /\ [][Next]_vars


\* ============================== export_random_wars_sample.py: run_export
\* The RandomWarsExporter process.  export.worksheet is the 'Random Wars
\* Sample' tab (absent, or the records get_all_records would return);
\* export.file is the output file.  found / read / saved record what happened.
UpdaterUnchanged ==
  UNCHANGED << store, today, webhook, keep_weeks, run, pc, gc, torn_data, hist, sheet,
               result, path, header_read, prepared, log, failed_at, deleted,
               store0, store_w, probe, columns >>

NoJson == [status |-> "none", data |-> <<>>, count |-> 0]

\* The dictionary of the except clause of export_random_wars_sample.
ErrorJson == [status |-> "error", data |-> <<>>, count |-> 0]

\* The dictionary returned for the records read: 'empty' or 'success'.
JsonOf(all_data) ==
  IF all_data = <<>> THEN [status |-> "empty", data |-> <<>>, count |-> 0]
  ELSE [status |-> "success", data |-> all_data, count |-> Len(all_data)]

\* What export_random_wars_sample returns when open_by_key or
\* get_all_records raises: the 'error' dictionary, not None.
export_error_result == ErrorJson

\* Longest 'Random Wars Sample' tab tried.
MaxRecords == 3

ExportWorksheets ==
  { [present |-> FALSE, records |-> <<>>] }
  \cup UNION { { [present |-> TRUE, records |-> r] : r \in [1..n -> {"a", "b"}] }
               : n \in 0..MaxRecords }

\* run_export up to and including authenticate_google.
exporter_authenticate_google ==
  /\ export.pc = "auth"
  /\ \/ export' = [export EXCEPT !.pc = "export", !.gc = TRUE]
     \/ export' = [export EXCEPT !.pc = "done", !.result = "False"]
  /\ UpdaterUnchanged

\* export_random_wars_sample, and the `json_data is None` test of run_export.
export_random_wars_sample ==
  /\ export.pc = "export"
  /\ \/ \* open_by_key raises
        export' = [export EXCEPT !.pc = "save", !.read = "error",
                                 !.json_data = export_error_result]
     \/ \* WorksheetNotFound: None is returned, run_export returns False
        /\ ~export.worksheet.present
        /\ export' = [export EXCEPT !.pc = "done", !.found = "no", !.result = "False"]
     \/ \* the tab is found and get_all_records raises
        /\ export.worksheet.present
        /\ export' = [export EXCEPT !.pc = "save", !.found = "yes", !.read = "error",
                                    !.json_data = export_error_result]
     \/ \* the tab is found and read
        /\ export.worksheet.present
        /\ export' = [export EXCEPT !.pc = "save", !.found = "yes", !.read = "ok",
                                    !.json_data = JsonOf(export.worksheet.records)]
  /\ UpdaterUnchanged

\* save_json_to_file and the return of run_export.  A save that fails leaves
\* the file as it was (makedirs or open failed) or cut short (the dump failed).
save_json_to_file ==
  /\ export.pc = "save"
  /\ \/ export' = [export EXCEPT !.pc = "done", !.saved = "yes",
                                 !.file = export.json_data, !.result = "True"]
     \/ \E cut \in BOOLEAN :
          export' = [export EXCEPT
                       !.pc = "done", !.saved = "no", !.result = "False",
                       !.file = IF cut THEN [NoJson EXCEPT !.status = "cut"]
                                ELSE export.file]
  /\ UpdaterUnchanged

InitExport ==
  /\ today = FirstDay
  /\ store = BaseStore(today, 0)
  /\ webhook = FALSE
  /\ keep_weeks = KeepWeeksDefault
  /\ run = 1
  /\ pc = "done"
  /\ gc = FALSE
  /\ torn_data = <<>>
  /\ hist = <<>>
  /\ sheet = NoSheet
  /\ result = "none"
  /\ path = "none"
  /\ header_read = NotRead
  /\ prepared = <<>>
  /\ log = <<>>
  /\ failed_at = "none"
  /\ deleted = {}
  /\ store0 = store
  /\ store_w = store
  /\ probe = NoProbe
  /\ columns = NoColumns
  /\ \E ws \in ExportWorksheets : \E old \in {NoJson, JsonOf(<< "a" >>)} :
       export = [pc |-> "auth", gc |-> FALSE, worksheet |-> ws, found |-> "none",
                 read |-> "none", json_data |-> NoJson, saved |-> "none",
                 file |-> old, result |-> "none"]

NextExport ==
  \/ exporter_authenticate_google
  \/ export_random_wars_sample
  \/ save_json_to_file

SpecExport == InitExport /\ [][NextExport]_vars


\* ================================================================ claims
InLog(e) == \E i \in 1..Len(log) : log[i] = e
Pos(e) == Min({i \in 1..Len(log) : log[i] = e})

\* The non-blank rows below the header row.
DataRows(ws) == {r \in DOMAIN ws.cells : r > HeaderRow}

\* Rows 1-2 hold the two notes, row 3 is blank, row 4 is the canonical header.
Layout(ws) ==
  /\ {1, 2, HeaderRow} \subseteq DOMAIN ws.cells
  /\ 3 \notin DOMAIN ws.cells
  /\ ws.cells[1].kind = "created_on"
  /\ ws.cells[2].kind = "as_of"
  /\ ws.cells[HeaderRow].kind = "header"
  /\ ws.cells[HeaderRow].hdr = expected_headers

\* The worksheet a full reset leaves: only notes and header, 1000 x 22.
FullyReset(ws) ==
  /\ Layout(ws)
  /\ DOMAIN ws.cells = {1, 2, HeaderRow}
  /\ ws.rows = SheetRows
  /\ ws.cols = SheetCols

\* update_sheet has just returned without raising.
WriteReturned == pc = "notify"

\* C1: the date in the weekly sheet name is today's when today is Tuesday and
\* otherwise that of the most recent past Tuesday: it is a Tuesday, not later
\* than today and at most 6 days before today.
C1_NameHoldsMostRecentTuesday ==
  sheet # NoSheet =>
    \E d \in (today - 6)..today :
      /\ weekday(d) = TuesdayIndex
      /\ sheet = SheetTitle(d)

\* C2: when the sheet exists and the header row read from row 4 differs from
\* the canonical list, a reset is started, any data write of the run comes
\* after a completed full reset, and the sheet handed to the write is the
\* fully reset one; when the row read equals the canonical list, no reset is
\* started in the run.
C2_HeaderMismatchResetsBeforeWrite ==
  header_read.status = "ok" =>
    /\ header_read.values # expected_headers =>
         /\ InLog("reset_begin")
         /\ path # "valid"
         /\ InLog("data_write") => (InLog("reset") /\ Pos("reset") < Pos("data_write"))
         /\ pc = "write" => (path = "reset" /\ FullyReset(store[sheet]))
    /\ header_read.values = expected_headers =>
         /\ ~InLog("reset_begin")
         /\ ~InLog("reset")
         /\ path = "valid"

\* C2 witness: a drifted header was read, the sheet was reset, and the data
\* rows of the run were written afterwards.
C2_Witness ==
  /\ header_read.status = "ok"
  /\ header_read.values # expected_headers
  /\ Len(header_read.values) = Len(expected_headers)
  /\ path = "reset"
  /\ InLog("data_write")

\* C3: after update_sheet returns, the sheet holds as many data rows as the
\* input has war records, all of them synthesized by this call.
C3_DataRowsAreThisCallsRows ==
  WriteReturned =>
    /\ Cardinality(DataRows(store[sheet])) = Len(torn_data)
    /\ \A r \in DataRows(store[sheet]) : store[sheet].cells[r].gen = run

\* C4: across an update_sheet call (returned or raised) the row capacity does
\* not decrease, and no row holding data lies outside the grid.
C4_CapacityNeverDecreases ==
  (WriteReturned \/ failed_at = "write") =>
    /\ store[sheet].rows >= store_w[sheet].rows
    /\ \A r \in DOMAIN store[sheet].cells : r <= store[sheet].rows

\* C5: after a write of n >= 1 records the records are exactly rows 5..4+n,
\* in order, and rows 1-4 are as they were before the write.
C5_RecordsStartBelowHeader ==
  (WriteReturned /\ prepared # <<>>) =>
    /\ DataRows(store[sheet]) = data_start_row..(HeaderRow + Len(prepared))
    /\ \A i \in 1..Len(prepared) :
         /\ (HeaderRow + i) \in DOMAIN store[sheet].cells
         /\ store[sheet].cells[HeaderRow + i] = prepared[i]
    /\ \A r \in 1..HeaderRow :
         /\ (r \in DOMAIN store[sheet].cells) = (r \in DOMAIN store_w[sheet].cells)
         /\ r \in DOMAIN store[sheet].cells => store[sheet].cells[r] = store_w[sheet].cells[r]

\* The sheet resolved in this run existed when the run started / had the
\* canonical header in row 4 then.
ExistedAtStart == sheet \in DOMAIN store0
ValidAtStart == ExistedAtStart /\ row_values(store0[sheet], HeaderRow) = expected_headers

\* C6 as stated: when the write begins, exactly one of: absent -> created;
\* present with the canonical header -> left as it was; present with another
\* header -> reset; and rows 1-4 have the layout.
C6_ThreePathsByHeader ==
  pc = "write" =>
    /\ \/ ~ExistedAtStart /\ path = "created"
       \/ ValidAtStart /\ path = "valid" /\ store[sheet] = store0[sheet]
       \/ ExistedAtStart /\ ~ValidAtStart /\ path = "reset"
    /\ Layout(store[sheet])

\* C6 amended: the reset path is also taken when the header row could not be
\* read; a present sheet is left as it was only when its header was read and
\* is canonical.  On every path rows 1-4 have the layout when the write begins.
C6_ThreePathsByHeaderRead ==
  pc = "write" =>
    /\ \/ /\ ~ExistedAtStart
          /\ path = "created"
          /\ header_read.status = "none"
       \/ /\ ValidAtStart
          /\ header_read.status = "ok"
          /\ path = "valid"
          /\ store[sheet] = store0[sheet]
       \/ /\ ExistedAtStart
          /\ ~ValidAtStart \/ header_read.status = "failed"
          /\ header_read.status # "none"
          /\ path = "reset"
          /\ FullyReset(store[sheet])
    /\ Layout(store[sheet])

\* C6 witness: a sheet with the canonical header whose header row could not
\* be read has been reset, and the write is about to begin.
C6_Witness ==
  /\ pc = "write"
  /\ ValidAtStart
  /\ header_read.status = "failed"
  /\ path = "reset"

WeeklyTitles(st) == {t \in DOMAIN st : startswith(t, SHEET_NAME_PREFIX)}

\* C7: only prefix-named sheets are ever deleted; when cleanup ends without a
\* failed call, nothing is deleted if there are at most keep_weeks prefix-named
\* sheets, and otherwise exactly the m - keep_weeks of them with the smallest
\* names are deleted and everything else remains.
C7_RetentionDeletesSmallestNames ==
  LET W == WeeklyTitles(store0)
      m == Cardinality(W)
  IN  /\ deleted \subseteq W
      /\ DOMAIN store = DOMAIN store0 \ deleted
      /\ (pc = "done" /\ ~InLog("cleanup_error")) =>
           /\ m <= keep_weeks => deleted = {}
           /\ m > keep_weeks =>
                /\ Cardinality(deleted) = m - keep_weeks
                /\ Cardinality(W \ deleted) = keep_weeks
                /\ \A d \in deleted : \A k \in W \ deleted : StrLess(d, k)

\* C7 witness: two of four prefix-named sheets were deleted next to a sheet
\* that is not prefix-named.
C7_Witness ==
  /\ pc = "done"
  /\ ~InLog("cleanup_error")
  /\ keep_weeks = 2
  /\ Cardinality(deleted) = 2
  /\ Sheet1Title \in DOMAIN store

\* C8: a failure while enumerating or deleting sheets does not fail the run:
\* run_update returns True and main exits 0.
C8_CleanupFailureIsSwallowed ==
  InLog("cleanup_error") =>
    /\ pc = "done"
    /\ failed_at = "none"
    /\ result = "True"
    /\ exit_status(result) = 0

\* C8 witness: a deletion failed after an earlier one had succeeded.
C8_Witness ==
  /\ InLog("cleanup_error")
  /\ deleted # {}
  /\ result = "True"

\* The step of run_update a log entry belongs to, by its place in the order
\* authenticate, fetch, resolve, write, notify, cleanup.
StepIndex(e) ==
  CASE e = "auth" -> 1
    [] e = "fetch" -> 2
    [] e \in {"resolve", "reset_begin", "reset", "create"} -> 3
    [] e \in {"write", "data_write"} -> 4
    [] e \in {"notify", "delivered", "delivery_failed"} -> 5
    [] OTHER -> 6

\* C9: an exception in authentication, fetch, resolution or write ends the
\* run: run_update returns False, main exits 1, no later step is taken, and
\* when it came from authentication or fetch the spreadsheet is as it was at
\* the start and nothing was notified.  Nothing else makes the run fail.
C9_FatalFailureAbortsRun ==
  /\ failed_at # "none" =>
       /\ failed_at \in {"auth", "fetch", "resolve", "write"}
       /\ pc = "done"
       /\ result = "False"
       /\ exit_status(result) = 1
       /\ \A i \in 1..Len(log) : StepIndex(log[i]) <= StepIndex(failed_at)
       /\ deleted = {}
       /\ failed_at \in {"auth", "fetch"} => store = store0
  /\ result = "False" => failed_at # "none"

\* C9 witness: the main fetch failed on a Tuesday with a webhook configured.
C9_Witness ==
  /\ failed_at = "fetch"
  /\ result = "False"
  /\ webhook
  /\ weekday(today) = TuesdayIndex

\* A history request that yields no usable history.
HistoryFailed(resp) ==
  resp.kind # "data" \/ ~resp.has_rankedwars \/ resp.winners = <<>>

WellFormed(wars) == \A i \in 1..Len(wars) : Len(wars[i].factions) >= 2

\* C10: whatever history requests fail, update_sheet gets one row per war
\* record from prepare_wars_data, and a faction whose request failed has wins
\* 0, losses 0 and win rate "0%" in its row.
C10_FailedHistoryGivesZeroedStats ==
  (log # <<>> /\ WellFormed(torn_data)) =>
    /\ Len(prepared) = Len(torn_data)
    /\ \A i \in 1..Len(torn_data) :
         \E j \in 1..Len(prepared) :
           /\ prepared[j].war_id = torn_data[i].id
           /\ HistoryFailed(hist[2 * i - 1]) =>
                /\ prepared[j].f1_won = 0
                /\ prepared[j].f1_lost = 0
                /\ prepared[j].f1_rate = 0
                /\ calculate_faction_stats(torn_data[i].factions[1], hist[2 * i - 1]) = ZeroStats
           /\ HistoryFailed(hist[2 * i]) =>
                /\ prepared[j].f2_won = 0
                /\ prepared[j].f2_lost = 0
                /\ prepared[j].f2_rate = 0
                /\ calculate_faction_stats(torn_data[i].factions[2], hist[2 * i]) = ZeroStats

\* C10 witness: two wars were synthesized; the first faction's request raised,
\* another was rate limited, and a third was answered with a real history.
C10_Witness ==
  /\ WriteReturned
  /\ Len(torn_data) = 2
  /\ Len(prepared) = 2
  /\ hist[1].kind = "exception"
  /\ hist[3] = RespRateLimit
  /\ \E j \in 1..2 : prepared[j].f2_won + prepared[j].f2_lost > 0

\* C11: a message is handed to the notifier only when a webhook is given and
\* today is Tuesday, and only after the resolution and the write of the same
\* run have returned; a run that got past the notification step has handed
\* one over exactly when a webhook is given and today is Tuesday.
C11_NotifiedIffWebhookOnTuesday ==
  /\ InLog("notify") =>
       /\ webhook
       /\ weekday(today) = TuesdayIndex
       /\ failed_at = "none"
       /\ sheet # NoSheet
       /\ InLog("resolve") /\ InLog("write")
       /\ Pos("resolve") < Pos("write")
       /\ Pos("write") < Pos("notify")
  /\ (pc \in {"cleanup", "done"} /\ failed_at = "none") =>
       (InLog("notify") <=> (webhook /\ weekday(today) = TuesdayIndex))

\* C11 witness: on a Tuesday with a webhook the rows were written and the
\* message was then handed over.
C11_Witness ==
  /\ pc = "cleanup"
  /\ InLog("data_write")
  /\ InLog("notify")

\* C12: a failed delivery does not end the run: it goes on to the retention
\* cleanup, run_update returns True and main exits 0.
C12_DeliveryFailureIsSwallowed ==
  InLog("delivery_failed") =>
    /\ failed_at = "none"
    /\ pc \in {"cleanup", "done"}
    /\ pc = "done" =>
         /\ InLog("cleanup")
         /\ result = "True"
         /\ exit_status(result) = 0

\* C12 witness: the delivery failed, and the cleanup that followed deleted an
\* old sheet before the run returned True.
C12_Witness ==
  /\ InLog("delivery_failed")
  /\ pc = "done"
  /\ deleted # {}
  /\ result = "True"

\* The place of a war in the fetched payload.
InputIndex(war_id) == CHOOSE i \in 1..Len(torn_data) : torn_data[i].id = war_id

\* C13: the rows prepare_wars_data returns are in descending order of start
\* timestamp, rows of equal start in their input order; the rows written to
\* the sheet are these rows, in this order from the top.
C13_RowsNewestFirst ==
  log # <<>> =>
    /\ Len(prepared) = Len(torn_data)
    /\ \A j, k \in 1..Len(prepared) :
         j < k =>
           LET a == InputIndex(prepared[j].war_id)
               b == InputIndex(prepared[k].war_id)
           IN  \/ torn_data[a].start > torn_data[b].start
               \/ torn_data[a].start = torn_data[b].start /\ a < b
    /\ (WriteReturned /\ prepared # <<>>) =>
         LET top == Min(DataRows(store[sheet]))
         IN  /\ Cardinality(DataRows(store[sheet])) = Len(prepared)
             /\ \A j \in 1..Len(prepared) :
                  /\ (top + j - 1) \in DataRows(store[sheet])
                  /\ store[sheet].cells[top + j - 1] = prepared[j]

\* C13 witness: three wars fetched oldest first, the two newest starting at
\* the same second, were written newest first with the tie in input order.
C13_Witness ==
  /\ WriteReturned
  /\ Len(torn_data) = 3
  /\ torn_data[1].start < torn_data[2].start
  /\ torn_data[2].start = torn_data[3].start
  /\ prepared = << war_row(torn_data[2], RespEmpty, RespEmpty, run),
                   war_row(torn_data[3], RespEmpty, RespEmpty, run),
                   war_row(torn_data[1], RespEmpty, RespEmpty, run) >>

\* C14: the status is "Active" for a record without an end timestamp,
\* "Finished" when the end is before now and "Preparing" when it is after
\* now; it is always one of the three.
C14_StatusByEndTimestamp ==
  columns # NoColumns =>
    /\ columns.status \in {"Active", "Finished", "Preparing"}
    /\ probe.end = 0 => columns.status = "Active"
    /\ (probe.end # 0 /\ probe.end * 1000 < probe.now) => columns.status = "Finished"
    /\ (probe.end # 0 /\ probe.end * 1000 > probe.now) => columns.status = "Preparing"

\* C14 witness: a war whose end is one millisecond away got "Preparing".
C14_Witness ==
  /\ columns.status = "Preparing"
  /\ probe.end * 1000 = probe.now + 1

\* The elapsed time (ms) C15 speaks of: end - start, or now - start when the
\* record has no end; and its text in whole days, hours and minutes.
ElapsedMs ==
  IF probe.end # 0 THEN (probe.end - probe.start) * 1000
  ELSE probe.now - probe.start * 1000
ElapsedText ==
  DurationText(ElapsedMs \div 86400000,
               (ElapsedMs % 86400000) \div 3600000,
               (ElapsedMs % 3600000) \div 60000)

\* C15: the Duration column is the elapsed time in whole days, hours and
\* minutes, in the format of its largest non-zero unit: 90 minutes give
\* "1h 30m", 0 minutes "0m", 25 hours "1d 1h 0m".
C15_DurationIsElapsedTime ==
  columns # NoColumns =>
    /\ columns.duration = ElapsedText
    /\ ElapsedMs = 5400000 => columns.duration = <<49, 104, 32, 51, 48, 109>>
    /\ ElapsedMs = 0 => columns.duration = <<48, 109>>
    /\ ElapsedMs = 90000000 => columns.duration = <<49, 100, 32, 49, 104, 32, 48, 109>>

\* C15 restricted to records without an end timestamp.
DurationOfRunningWar ==
  (columns # NoColumns /\ probe.end = 0) => columns.duration = ElapsedText

\* The number of wars of a history that the faction is the recorded winner of.
WinsIn(winners, faction_id) ==
  Cardinality({i \in 1..Len(winners) : winners[i] = faction_id})

\* r is the integer nearest to 100 * wins / total (either neighbour at a half).
NearestPercent(r, wins, total) ==
  /\ 2 * (100 * wins - r * total) <= total
  /\ 2 * (r * total - 100 * wins) <= total

\* C16: for each faction of the war and its history, wins is the number of
\* records the faction is the recorded winner of, total is the number of
\* records, and the win rate is 100 * wins / total rounded to an integer (75
\* for 3 of 4), or 0 for an empty history; the row carries these figures.
C16_WinRateIsRoundedPercentage ==
  log # <<>> =>
    \A p \in 1..2 :
      LET f     == torn_data[1].factions[p]
          w     == hist[p].winners
          stats == calculate_faction_stats(f, hist[p])
      IN  /\ stats.wars_won = WinsIn(w, f)
          /\ stats.total_wars = Len(w)
          /\ Len(w) = 0 => stats.win_rate = 0
          /\ Len(w) > 0 => NearestPercent(stats.win_rate, WinsIn(w, f), Len(w))
          /\ (WinsIn(w, f) = 3 /\ Len(w) = 4) => stats.win_rate = 75
          /\ prepared # <<>> =>
               /\ (IF p = 1 THEN prepared[1].f1_won ELSE prepared[1].f2_won) = stats.wars_won
               /\ (IF p = 1 THEN prepared[1].f1_rate ELSE prepared[1].f2_rate) = stats.win_rate

\* C16 witness: faction 12 won 2 of 3 wars and its row says 67%.
C16_Witness ==
  /\ WriteReturned
  /\ Len(hist[2].winners) = 3
  /\ prepared[1].f2_won = 2
  /\ prepared[1].f2_lost = 1
  /\ prepared[1].f2_rate = 67

\* C17: the sheet resolved and written in a run is not among the sheets the
\* cleanup of that run deletes, and is still in the spreadsheet when the run
\* has returned True.
C17_CurrentSheetSurvivesCleanup ==
  sheet # NoSheet =>
    /\ sheet \notin deleted
    /\ (pc = "done" /\ result = "True") => sheet \in DOMAIN store

\* C18: run_export returns True only if the tab was found and read without
\* error and the file was written with status "success" or "empty"; when the
\* tab is missing, the read raised or the save failed, it returns False.
C18_ExportTrueOnlyAfterGoodRead ==
  export.pc = "done" =>
    /\ export.result = "True" =>
         /\ export.found = "yes"
         /\ export.read = "ok"
         /\ export.saved = "yes"
         /\ export.file.status \in {"success", "empty"}
    /\ (export.found = "no" \/ export.read = "error" \/ export.saved = "no") =>
         export.result = "False"

=============================================================================
